---- MODULE Spec2Model ----
(***************************************************************************)
(* A model of the pykilosort sorter adapter,                               *)
(* spikeinterface/sorters/pykilosort/pykilosort.py.                        *)
(*                                                                         *)
(* The state is what the adapter's hooks can see or change: the result of  *)
(* the module's import block (HAVE_PYKILOSORT and the names bound in the   *)
(* module's namespace), the environment (whether pykilosort is importable  *)
(* now), the file system under the output folder, and the last hook        *)
(* invocation with its arguments, the external calls it made and its       *)
(* outcome.                                                                *)
(***************************************************************************)
EXTENDS Integers, Sequences, FiniteSets, TLC

VARIABLES
    env,              \* the environment now: is pykilosort importable, and its version
    importEnv,        \* the environment the import block (lines 8-14) saw: the
                      \* pykilosort module object it loaded, if any
    HAVE_PYKILOSORT,  \* the module-level flag set by the import block
    globals,          \* the names bound in the module's namespace
    fs,               \* the file system: path -> file content
    last              \* the last hook invocation: arguments, external calls, outcome

vars == <<env, importEnv, HAVE_PYKILOSORT, globals, fs, last>>

(***************************************************************************)
(* Bounds of the model.                                                    *)
(***************************************************************************)
MaxChan == 2
MaxSamples == 2

(***************************************************************************)
(* Python values and outcomes.                                             *)
(***************************************************************************)
None == "None"

Return(v) == [kind |-> "return", value |-> v]

Raise(e) == [kind |-> "raise", exc |-> e]

(***************************************************************************)
(* Paths: a path is the sequence of its components, and p / name appends.  *)
(***************************************************************************)
Join(p, name) == Append(p, name)

IsUnder(p, folder) ==
    /\ Len(p) > Len(folder)
    /\ SubSeq(p, 1, Len(folder)) = folder

\* The output folder the driver works in, and a folder nothing is ever written to.
Folders == {<<"sorting">>}

AnyFolders == Folders \cup {<<"elsewhere">>}

(***************************************************************************)
(* The environment: the external dependency is absent (import pykilosort   *)
(* raises ImportError), partial (the package imports, one of the names     *)
(* Bunch, add_default_handler, run does not) or full.                      *)
(***************************************************************************)
Versions == {"2.0", "2.1"}

Envs ==
    {[status |-> "absent", version |-> None]}
        \cup {[status |-> s, version |-> v] : s \in {"partial", "full"}, v \in Versions}

(***************************************************************************)
(* Lines 1-6: the names the module binds before the import block, and the  *)
(* class itself.  KiloSortSortingExtractor is not among the imports.       *)
(***************************************************************************)
StaticGlobals ==
    {"Path", "np", "load_extractor", "BinaryRecordingExtractor", "read_kilosort",
     "BaseSorter", "PyKilosortSorter"}

(***************************************************************************)
(* Lines 8-14: the import block, run once when the module is imported.     *)
(* import pykilosort binds the package name; the from-import binds its     *)
(* three names only if all three exist; ImportError from either line       *)
(* leaves the flag False.                                                  *)
(***************************************************************************)
ImportBlock(e) ==
    CASE e.status = "full" ->
            [have |-> TRUE,
             names |-> {"pykilosort", "Bunch", "add_default_handler", "run", "HAVE_PYKILOSORT"}]
      [] e.status = "partial" ->
            [have |-> FALSE, names |-> {"pykilosort", "HAVE_PYKILOSORT"}]
      [] OTHER ->
            [have |-> FALSE, names |-> {"HAVE_PYKILOSORT"}]

(***************************************************************************)
(* Recordings.  A recording exposes its class, its segments, its channel   *)
(* locations (one <<x, y>> row per channel), its samples per segment, its  *)
(* dtype and sampling frequency, and (for a binary recording) the files    *)
(* that hold its segments.                                                 *)
(***************************************************************************)
DtypeWidth(dtype) ==
    CASE dtype = "int16" -> 2
      [] dtype = "float32" -> 4

Formats ==
    {[dtype |-> "int16", sampling_frequency |-> 30000],
     [dtype |-> "float32", sampling_frequency |-> 25000]}

\* Channel locations, one <<x, y>> row per channel: a single column of
\* contacts, and two staggered columns.
ColumnLocs(n) == [i \in 1..n |-> <<8, 20 * i>>]

StaggeredLocs(n) == [i \in 1..n |-> <<16 * (i % 2), 20 * i>>]

LocArrays == {ColumnLocs(n) : n \in 1..MaxChan} \cup {StaggeredLocs(n) : n \in 1..MaxChan}

Classes == {"BinaryRecordingExtractor", "NumpyRecording"}

SegmentCounts == {1, 2}

OriginalNames == <<"raw_seg0.bin", "raw_seg1.bin">>

CachedNames == <<"traces_cached_seg0.raw", "traces_cached_seg1.raw">>

\* The files of a binary recording that was never staged: they live in the
\* user's data folder.
OriginalPaths(cls, nseg) ==
    IF cls = "BinaryRecordingExtractor"
    THEN [i \in 1..nseg |-> <<"data", OriginalNames[i]>>]
    ELSE <<>>

MkRecording(cls, nseg, locs, nsamp, fmt) ==
    [cls |-> cls,
     num_segments |-> nseg,
     locations |-> locs,
     num_samples |-> nsamp,
     dtype |-> fmt.dtype,
     sampling_frequency |-> fmt.sampling_frequency,
     file_paths |-> OriginalPaths(cls, nseg)]

DefaultFormat == [dtype |-> "int16", sampling_frequency |-> 30000]

DefaultLocs == StaggeredLocs(MaxChan)

\* The recordings a caller passes: every geometry, every shape (class and
\* segment count), every size (samples and format).
RecordingsByGeometry ==
    {MkRecording("BinaryRecordingExtractor", 1, locs, 1, DefaultFormat) : locs \in LocArrays}

RecordingsByShape ==
    {MkRecording(cls, nseg, DefaultLocs, 1, DefaultFormat) :
        cls \in Classes, nseg \in SegmentCounts}

RecordingsBySize ==
    {MkRecording("BinaryRecordingExtractor", 1, DefaultLocs, nsamp, fmt) :
        nsamp \in 1..MaxSamples, fmt \in Formats}

Recordings == RecordingsByGeometry \cup RecordingsByShape \cup RecordingsBySize

get_num_channels(recording) == Len(recording.locations)

(***************************************************************************)
(* The parameter mappings and the extra keyword arguments a driver passes. *)
(***************************************************************************)
ParamSets ==
    {[nblocks |-> 5, stable_mode |-> TRUE],
     [nblocks |-> 1, stable_mode |-> TRUE, seed |-> 42]}

ExtraKwargs == {{}, {"stop_after"}, {"dtype"}}

\* What the external run function does: it completes or raises.
ExtOutcomes == {"ok", "RuntimeError", "MemoryError"}

(***************************************************************************)
(* The framework around the adapter (spikeinterface.core, not part of the  *)
(* adapter's file): saving a recording in binary format to a folder, and   *)
(* loading a recording back from its serialized description.               *)
(***************************************************************************)
DescriptionName == "spikeinterface_recording.json"

JsonFile(recording) == [type |-> "json", recording |-> recording]

RawFile(size) == [type |-> "raw", size |-> size]

\* The bytes of one segment: channels x samples x dtype width.
SegmentBytes(recording) ==
    get_num_channels(recording) * recording.num_samples * DtypeWidth(recording.dtype)

\* recording.save(format='binary', folder=folder): the files the folder holds
\* afterwards, one raw file per segment and the description of the saved
\* (binary) recording, which references those raw files.
Save(recording, format, folder) ==
    LET raw == [i \in 1..recording.num_segments |-> Join(folder, CachedNames[i])]
        cached == [recording EXCEPT !.cls = "BinaryRecordingExtractor", !.file_paths = raw]
        written == {raw[i] : i \in 1..recording.num_segments}
                       \cup {Join(folder, DescriptionName)}
    IN  IF format = "binary"
        THEN [p \in written |->
                 IF p = Join(folder, DescriptionName)
                 THEN JsonFile(cached)
                 ELSE RawFile(SegmentBytes(recording))]
        ELSE [p \in {Join(folder, DescriptionName)} |-> JsonFile(recording)]

\* The file system after `files` replace the content of `folder`.
WriteFolder(fsys, folder, files) ==
    LET kept == {p \in DOMAIN fsys : ~IsUnder(p, folder)}
    IN  [p \in kept \cup DOMAIN files |-> IF p \in DOMAIN files THEN files[p] ELSE fsys[p]]

\* load_extractor(path): the recording a description file describes.
load_extractor(fsys, path) ==
    IF path \in DOMAIN fsys /\ fsys[path].type = "json"
    THEN Return(fsys[path].recording)
    ELSE Raise("LoadError")

(***************************************************************************)
(* Lines 134-136: is_installed.                                            *)
(***************************************************************************)
\* The dependency is importable when everything the import block imports is.
Importable(e) == e.status = "full"

is_installed_probing(have, e) == Return(Importable(e))

\* have is the module-level flag, e the environment at the call (not read).
is_installed(have, e) == Return(have)

(***************************************************************************)
(* Lines 138-140: get_sorter_version reads pykilosort.__version__: the     *)
(* name pykilosort is looked up in the module's namespace, and the module  *)
(* object is the one the import block loaded.                              *)
(***************************************************************************)
get_sorter_version_placeholder(g, module) ==
    IF "pykilosort" \in g THEN Return(module.version) ELSE Return("unknown")

get_sorter_version(g, module) ==
    IF "pykilosort" \in g THEN Return(module.version) ELSE Raise("NameError")

(***************************************************************************)
(* Lines 142-144: _check_params.                                           *)
(***************************************************************************)
_check_params_clamping(recording, output_folder, params) ==
    Return([params EXCEPT !.nblocks = IF recording.num_segments > 1 THEN 0 ELSE @])

_check_params(recording, output_folder, params) == Return(params)

(***************************************************************************)
(* Lines 146-151: _setup_recording saves a local copy of the recording,    *)
(* in binary format, in the folder output_folder / 'bin_folder'.  The      *)
(* probe read at line 148 is not used.                                     *)
(***************************************************************************)
StagingFolderFlat(output_folder) == output_folder

StagingFolder(output_folder) == Join(output_folder, "bin_folder")

StagingFormat == "binary"

_setup_recording(fsys, recording, output_folder) ==
    WriteFolder(fsys, StagingFolder(output_folder),
                Save(recording, StagingFormat, StagingFolder(output_folder)))

(***************************************************************************)
(* Lines 153-184: _run_from_folder.                                        *)
(***************************************************************************)
\* Line 155: the description the hook reloads the recording from.
DescriptionPath(output_folder) == Join(output_folder, DescriptionName)

\* Lines 157-158: the two assertions.
AssertionsPassTypeOnly(recording) ==
    recording.cls = "BinaryRecordingExtractor"

AssertionsPass(recording) ==
    /\ recording.cls = "BinaryRecordingExtractor"
    /\ recording.num_segments = 1

\* Line 159: recording._kwargs['file_paths'][0].
DatPath(recording) == recording.file_paths[1]

\* Lines 162-173: the probe descriptor, a Bunch with five attributes.
KsProbeSwapped(recording) ==
    LET num_chans == get_num_channels(recording)
        locations == recording.locations
    IN  [NchanTOT |-> num_chans,
         chanMap |-> [i \in 1..num_chans |-> i - 1],
         kcoords |-> [i \in 1..num_chans |-> 1],
         xc |-> [i \in 1..num_chans |-> locations[i][2]],
         yc |-> [i \in 1..num_chans |-> locations[i][1]]]

KsProbe(recording) ==
    LET num_chans == get_num_channels(recording)
        locations == recording.locations
    IN  [NchanTOT |-> num_chans,
         chanMap |-> [i \in 1..num_chans |-> i - 1],
         kcoords |-> [i \in 1..num_chans |-> 1],
         xc |-> [i \in 1..num_chans |-> locations[i][1]],
         yc |-> [i \in 1..num_chans |-> locations[i][2]]]

\* Lines 175-184: the keywords the call spells out; a keyword given again in
\* **kwargs is a TypeError and the function is not entered.
ExplicitKeywords == {"params", "probe", "dir_path", "n_channels", "dtype", "sample_rate"}

\* Lines 175-184: the arguments of the call.
RunArgumentsIntoOutput(recording, output_folder, params, ks_probe, kwargs) ==
    [dat_path |-> recording.file_paths[1],
     params |-> params,
     probe |-> ks_probe,
     dir_path |-> Join(output_folder, "output"),
     n_channels |-> get_num_channels(recording),
     dtype |-> recording.dtype,
     sample_rate |-> recording.sampling_frequency,
     kwargs |-> kwargs]

RunArguments(recording, output_folder, params, ks_probe, kwargs) ==
    [dat_path |-> DatPath(recording),
     params |-> params,
     probe |-> ks_probe,
     dir_path |-> output_folder,
     n_channels |-> get_num_channels(recording),
     dtype |-> recording.dtype,
     sample_rate |-> recording.sampling_frequency,
     kwargs |-> kwargs]

\* Lines 175-184: the call itself.  The hook has no try, no loop: it calls
\* run once, and what run raises leaves the hook as it is.
\* Each entry of calls is one entry into the external function: its arguments
\* and how it ended.
InvokeRunRetrying(args, ext) ==
    IF ext = "ok"
    THEN [calls |-> <<[args |-> args, ended |-> "ok"]>>, outcome |-> Return(None)]
    ELSE [calls |-> <<[args |-> args, ended |-> ext], [args |-> args, ended |-> "ok"]>>,
          outcome |-> Return(None)]

InvokeRun(args, ext) ==
    [calls |-> <<[args |-> args, ended |-> ext]>>,
     outcome |-> IF ext = "ok" THEN Return(None) ELSE Raise(ext)]

NoCall(outcome) == [calls |-> <<>>, outcome |-> outcome]

\* The hook from line 157 on, given the reloaded recording.
RunLoaded(g, recording, output_folder, params, kwargs, ext) ==
    IF ~AssertionsPass(recording) THEN NoCall(Raise("AssertionError"))
    ELSE IF "Bunch" \notin g THEN NoCall(Raise("NameError"))
    ELSE IF "run" \notin g THEN NoCall(Raise("NameError"))
    ELSE IF kwargs \cap ExplicitKeywords # {} THEN NoCall(Raise("TypeError"))
    ELSE InvokeRun(RunArguments(recording, output_folder, params,
                                KsProbe(recording), kwargs), ext)

\* The whole hook: what it loaded and from where, the calls it made, how it ended.
_run_from_folder(fsys, g, output_folder, params, kwargs, ext) ==
    LET path == DescriptionPath(output_folder)
        loaded == load_extractor(fsys, path)
    IN  IF loaded.kind = "raise"
        THEN [loaded_from |-> path, loaded |-> FALSE] @@ NoCall(loaded)
        ELSE [loaded_from |-> path, loaded |-> TRUE, recording |-> loaded.value]
                 @@ RunLoaded(g, loaded.value, output_folder, params, kwargs, ext)

\* What the external run leaves on disk when it completes: its result files,
\* in the output subfolder of the directory it was given.
ResultFiles(dir_path) ==
    [p \in {Join(Join(dir_path, "output"), "spike_times.npy")} |-> [type |-> "npy"]]

(***************************************************************************)
(* Lines 186-189: _get_result_from_folder constructs                       *)
(* KiloSortSortingExtractor(folder_path=output_folder / 'output'); the     *)
(* name is looked up in the module's namespace when the hook runs.         *)
(***************************************************************************)
ResultFolder(output_folder) == Join(output_folder, "output")

_get_result_from_folder(g, output_folder) ==
    IF "KiloSortSortingExtractor" \in g
    THEN Return([reader |-> "KiloSortSortingExtractor",
                 folder_path |-> ResultFolder(output_folder)])
    ELSE Raise("NameError")

(***************************************************************************)
(* The state after the module is imported, and the operations.             *)
(***************************************************************************)
NoFiles == [p \in {} |-> None]

Init ==
    /\ env \in Envs
    /\ importEnv = env
    /\ HAVE_PYKILOSORT = ImportBlock(env).have
    /\ globals = StaticGlobals \cup ImportBlock(env).names
    /\ fs = NoFiles
    /\ last = [hook |-> "none"]

Invocation(hook) == [hook |-> hook, env |-> env]

IsInstalled ==
    /\ last' = Invocation("is_installed")
                   @@ [outcome |-> is_installed(HAVE_PYKILOSORT, env)]
    /\ UNCHANGED <<env, importEnv, HAVE_PYKILOSORT, globals, fs>>

GetSorterVersion ==
    /\ last' = Invocation("get_sorter_version")
                   @@ [outcome |-> get_sorter_version(globals, importEnv)]
    /\ UNCHANGED <<env, importEnv, HAVE_PYKILOSORT, globals, fs>>

CheckParams ==
    \E recording \in RecordingsByShape, output_folder \in AnyFolders, params \in ParamSets :
        /\ last' = Invocation("check_params")
                       @@ [output_folder |-> output_folder, params |-> params,
                           outcome |-> _check_params(recording, output_folder, params)]
        /\ UNCHANGED <<env, importEnv, HAVE_PYKILOSORT, globals, fs>>

SetupRecording ==
    \E recording \in Recordings, output_folder \in Folders :
        /\ fs' = _setup_recording(fs, recording, output_folder)
        /\ last' = Invocation("setup")
                       @@ [output_folder |-> output_folder, recording |-> recording,
                           outcome |-> Return(None)]
        /\ UNCHANGED <<env, importEnv, HAVE_PYKILOSORT, globals>>

RunFromFolder ==
    \E output_folder \in Folders, params \in ParamSets,
       kwargs \in ExtraKwargs, ext \in ExtOutcomes :
        LET r == _run_from_folder(fs, globals, output_folder, params, kwargs, ext)
        IN  /\ last' = Invocation("run")
                           @@ [output_folder |-> output_folder, params |-> params,
                               kwargs |-> kwargs]
                           @@ r
            /\ fs' = IF r.outcome.kind = "return"
                     THEN ResultFiles(r.calls[1].args.dir_path) @@ fs
                     ELSE fs
            /\ UNCHANGED <<env, importEnv, HAVE_PYKILOSORT, globals>>

GetResultFromFolder ==
    \E output_folder \in AnyFolders :
        /\ last' = Invocation("get_result")
                       @@ [output_folder |-> output_folder,
                           outcome |-> _get_result_from_folder(globals, output_folder)]
        /\ UNCHANGED <<env, importEnv, HAVE_PYKILOSORT, globals, fs>>

\* The driver around the adapter leaves a recording's description in the
\* output folder when it creates the folder, before the run hook reads it.
DriverWritesDescription ==
    \E recording \in Recordings, output_folder \in Folders :
        /\ DescriptionPath(output_folder) \notin DOMAIN fs
        /\ fs' = [p \in {DescriptionPath(output_folder)} |-> JsonFile(recording)] @@ fs
        /\ UNCHANGED <<env, importEnv, HAVE_PYKILOSORT, globals, last>>

\* The environment changes: the dependency is installed, removed or replaced.
EnvChange ==
    /\ env' \in Envs \ {env}
    /\ UNCHANGED <<importEnv, HAVE_PYKILOSORT, globals, fs, last>>

Next ==
    \/ IsInstalled
    \/ GetSorterVersion
    \/ CheckParams
    \/ SetupRecording
    \/ RunFromFolder
    \/ GetResultFromFolder
    \/ DriverWritesDescription

Spec == Init /\ [][Next]_vars

NextEnv ==
    \/ EnvChange
    \/ IsInstalled
    \/ GetSorterVersion

SpecEnv == Init /\ [][NextEnv]_vars

(***************************************************************************)
(* Properties.                                                             *)
(***************************************************************************)
RunInvoked == last.hook = "run"

RunLoadedRecording == RunInvoked /\ last.loaded

RunCalled == RunInvoked /\ last.calls # <<>>

Staged(output_folder) ==
    Join(StagingFolder(output_folder), DescriptionName) \in DOMAIN fs

\* C1: in the lifecycle setup(recording, output_folder) then run(output_folder),
\* the recording the run hook reloads is loaded from the description staging
\* left under <output_folder>/bin_folder/, and the raw file path handed to the
\* external run function is the binary file staged in <output_folder>/bin_folder/.
C1_ReloadsStagedRecording ==
    (RunCalled /\ Staged(last.output_folder)) =>
        /\ last.loaded_from = Join(StagingFolder(last.output_folder), DescriptionName)
        /\ \A i \in 1..Len(last.calls) :
               last.calls[i].args.dat_path
                   = Join(StagingFolder(last.output_folder), CachedNames[1])

\* C2: whenever the reloaded recording has more than one segment or is not a
\* BinaryRecordingExtractor, the run hook ends with an AssertionError and has
\* made no call of the external run function.
C2_AssertionPrecedesRun ==
    (RunLoadedRecording
        /\ (last.recording.num_segments > 1
               \/ last.recording.cls # "BinaryRecordingExtractor")) =>
        /\ last.outcome = Raise("AssertionError")
        /\ last.calls = <<>>

C2_Witness ==
    /\ RunLoadedRecording
    /\ HAVE_PYKILOSORT
    /\ last.recording.cls = "BinaryRecordingExtractor"
    /\ last.recording.num_segments = 2
    /\ last.outcome = Raise("AssertionError")
    /\ last.calls = <<>>

\* C3: the probe descriptor passed to the external run function has
\* NchanTOT = N, chanMap = [0..N-1], xc = column 0 and yc = column 1 of the
\* reloaded recording's N locations, and kcoords of length N, every entry 1.
C3_ProbeDescriptor ==
    RunCalled =>
        LET locations == last.recording.locations
            N == Len(locations)
        IN  \A c \in 1..Len(last.calls) :
                LET ks_probe == last.calls[c].args.probe
                IN  /\ ks_probe.NchanTOT = N
                    /\ DOMAIN ks_probe.chanMap = 1..N
                    /\ DOMAIN ks_probe.xc = 1..N
                    /\ DOMAIN ks_probe.yc = 1..N
                    /\ DOMAIN ks_probe.kcoords = 1..N
                    /\ \A i \in 1..N :
                           /\ ks_probe.chanMap[i] = i - 1
                           /\ ks_probe.xc[i] = locations[i][1]
                           /\ ks_probe.yc[i] = locations[i][2]
                           /\ ks_probe.kcoords[i] = 1

C3_Witness ==
    /\ RunCalled
    /\ Len(last.recording.locations) = MaxChan
    /\ last.calls[1].args.probe.xc = [i \in 1..MaxChan |-> 16 * (i % 2)]
    /\ last.calls[1].args.probe.yc = [i \in 1..MaxChan |-> 20 * i]

\* C4: result retrieval returns, for every output folder and whether or not
\* <output_folder>/output exists, a reader pointed at <output_folder>/output,
\* and does not fail at retrieval time.
C4_RetrievalReturnsReader ==
    last.hook = "get_result" =>
        /\ last.outcome.kind = "return"
        /\ last.outcome.value.folder_path = Join(last.output_folder, "output")

C6_CheckParamsIdentity ==
    [][(last'.hook = "check_params" /\ (last.hook # "check_params" \/ last' # last)) =>
           /\ last'.outcome = Return(last'.params)
           /\ fs' = fs
           /\ globals' = globals
           /\ HAVE_PYKILOSORT' = HAVE_PYKILOSORT]_vars

C6_Witness ==
    /\ last.hook = "check_params"
    /\ last.outcome = Return(last.params)
    /\ "seed" \in DOMAIN last.outcome.value
    /\ fs # NoFiles

\* C7: whenever the hook passes its assertions (and can make the call), the
\* external run function is called with the reloaded recording's first file
\* path, the parameter mapping exactly as the hook received it, the probe
\* descriptor, the output folder itself as dir_path, and the channel count,
\* dtype and sampling frequency of the reloaded recording.
C7_RunArguments ==
    /\ RunCalled =>
           \A c \in 1..Len(last.calls) :
               LET args == last.calls[c].args
               IN  /\ args.dat_path = last.recording.file_paths[1]
                   /\ args.params = last.params
                   /\ args.probe.NchanTOT = Len(last.recording.locations)
                   /\ args.dir_path = last.output_folder
                   /\ args.n_channels = Len(last.recording.locations)
                   /\ args.dtype = last.recording.dtype
                   /\ args.sample_rate = last.recording.sampling_frequency
    /\ (RunLoadedRecording
           /\ last.recording.cls = "BinaryRecordingExtractor"
           /\ last.recording.num_segments = 1
           /\ HAVE_PYKILOSORT
           /\ last.kwargs \cap ExplicitKeywords = {}) =>
           Len(last.calls) = 1

C7_Witness ==
    /\ RunCalled
    /\ last.calls[1].args.dtype = "float32"
    /\ last.calls[1].args.sample_rate = 25000
    /\ last.calls[1].args.dir_path = last.output_folder
    /\ "seed" \in DOMAIN last.calls[1].args.params
    /\ last.calls[1].args.kwargs = {"stop_after"}

\* C8: for a single-segment recording with N channels, S samples and a dtype
\* of width W bytes, staging leaves under <output_folder>/bin_folder exactly
\* one binary file, of N * S * W bytes, and a loadable description of a
\* recording whose only file is that binary file.
C8_StagedBinary ==
    (last.hook = "setup" /\ last.recording.num_segments = 1) =>
        LET bin_folder == Join(last.output_folder, "bin_folder")
            raws == {p \in DOMAIN fs : IsUnder(p, bin_folder) /\ fs[p].type = "raw"}
            described == load_extractor(fs, Join(bin_folder, DescriptionName))
        IN  /\ Cardinality(raws) = 1
            /\ \A p \in raws :
                   /\ fs[p].size = Len(last.recording.locations)
                                       * last.recording.num_samples
                                       * DtypeWidth(last.recording.dtype)
                   /\ described.kind = "return"
                   /\ described.value.file_paths = <<p>>
                   /\ described.value.num_segments = 1

C8_Witness ==
    /\ last.hook = "setup"
    /\ last.recording.num_segments = 1
    /\ last.recording.num_samples = MaxSamples
    /\ last.recording.dtype = "float32"
    /\ \E p \in DOMAIN fs :
           /\ IsUnder(p, Join(last.output_folder, "bin_folder"))
           /\ fs[p].type = "raw"
           /\ fs[p].size = MaxChan * MaxSamples * 4

\* C9: if the external run function raises, the run hook ends with that same
\* failure, and the hook calls the external run function at most once.
C9_FailurePropagates ==
    RunInvoked =>
        /\ Len(last.calls) <= 1
        /\ \A c \in 1..Len(last.calls) :
               last.calls[c].ended # "ok" => last.outcome = Raise(last.calls[c].ended)

C9_Witness ==
    /\ RunCalled
    /\ Len(last.calls) = 1
    /\ last.calls[1].ended = "MemoryError"
    /\ last.outcome = Raise("MemoryError")

\* C10: each availability check returns the importability of the dependency at
\* the moment of that call (last.env is the environment at the call).
C10_CheckSeesEnvironmentAtCall ==
    last.hook = "is_installed" =>
        /\ last.env.status = "absent" => last.outcome = Return(FALSE)
        /\ last.env.status = "full" => last.outcome = Return(TRUE)

\* C10, amended: each availability check returns the importability of the
\* dependency at the moment the adapter module was imported, whatever the
\* environment is at the call.
C10_CheckSeesEnvironmentAtImport ==
    last.hook = "is_installed" =>
        /\ last.outcome = Return(Importable(importEnv))
        /\ last.outcome = Return(HAVE_PYKILOSORT)

C10_Witness ==
    /\ last.hook = "is_installed"
    /\ last.env.status = "absent"
    /\ importEnv.status = "full"
    /\ last.outcome = Return(TRUE)

====
